---- MODULE Spec2Model ----
(***************************************************************************)
(* A model of torndb's connection pool (src/pool.py) and of the Connection *)
(* wrapper it manages (src/connection.py).                                 *)
(*                                                                         *)
(* Spec            one Pool object: its constructor, then calls of         *)
(*                 set_config / add_connection / get_connection / dispose  *)
(*                 made one after the other.                               *)
(* ThreadSpec      the same pool called by client threads through the      *)
(*                 module-level re-entrant lock.                           *)
(* FairThreadSpec  ThreadSpec under a fair thread scheduler.               *)
(* ConnSpec        one Connection wrapper used by a single caller, with a  *)
(*                 clock.                                                  *)
(***************************************************************************)
EXTENDS Integers, Sequences, FiniteSets, TLC

\* ------------------------------------------------------------------ bounds
CNX_POOL_MAXSIZE == 32

\* Largest valid pool size the constructor is tried with.
MaxSize == 2

\* Connection objects are numbered 1..MaxCnx in the order they are
\* constructed: as many as fill the largest pool.
MaxCnx == MaxSize

\* One more Connection object, which the caller constructed itself.
OwnCnx == MaxCnx + 1

CnxIds == 1..OwnCnx

\* The client threads of ThreadSpec, and the sizes of the pool they share:
\* below the largest, so that add_connection() can construct a connection
\* after the constructor's fill.
Threads == {1, 2}

ThreadSizes == 1..(MaxSize - 1)

\* The clock of ConnSpec runs from 0 to MaxTime, and max_idle_time is given
\* from 1 to MaxIdle.
MaxTime == 3

MaxIdle == 1

\* Arguments of add_connection: None, a Connection object, or any other
\* (truthy) object.
NoneArg == 0

OtherObject == -1

\* Keyword arguments of Pool(...) / set_config(...): none at all, a
\* configuration the server accepts, one it refuses (wrong credentials,
\* unreachable host), one whose host has no split() (Connection.__init__
\* raises AttributeError on it) and one whose host is a string "name:port"
\* with a port that is no number (int() raises ValueError on it).
Configs == {"good", "bad"}

Kwargs == {"empty", "malformed", "badport"} \cup Configs

\* Pool sizes the constructor is tried with.
Sizes == {-1, 0} \cup (1..MaxSize) \cup {CNX_POOL_MAXSIZE + 1}

VARIABLES
    phase,          \* position of Pool.__init__: "new", "filling", "ready", "failed"
    ctor_exc,       \* the exception Pool.__init__ raised, or "none"
    cnt,            \* Pool.__init__'s loop counter
    pool_size,      \* Pool._pool_size (0 for None)
    cnx_config,     \* Pool._cnx_config ("empty" for {})
    queue_maxsize,  \* maxsize of Pool._cnx_queue
    cnx_queue,      \* Pool._cnx_queue, head first
    ncnx,           \* number of Connection objects constructed so far
    db,             \* Connection._db per object: 0 for None, 1 for an open driver handle
    \* the callers of Spec, whose calls run one after the other
    held,           \* connections got from the pool and not given back
    refs,           \* connections a caller has a reference to: its own, and those it got
    usage,          \* history of the calls made since construction
    call,           \* the last call: method and outcome
    \* the threads of ThreadSpec
    lock_owner,     \* CONNECTION_POOL_LOCK: owning thread, 0 when free
    lock_count,     \* CONNECTION_POOL_LOCK: recursion level
    pc,             \* per thread: "idle", "acquire", "cs", "removing", "exit"
    ret,            \* per thread: outcome of the call, known at "exit"
    holds,          \* per thread: connections got from the pool and not given back
    \* the Connection object of ConnSpec (object 1) and its clock
    now,            \* time.time()
    max_idle_time,  \* Connection.max_idle_time
    last_use_time,  \* Connection._last_use_time
    db_args,        \* Connection._db_args
    cstate,         \* Connection(...): "new" before it, then "live", or "failed" if it raised
    autocommit_on,  \* the autocommit mode of the handle _db
    txn,            \* the caller's `with transaction():` block: "none", "open",
                    \* or "failed" once an exception is on its way out of the body
    body_exc,       \* that exception
    log,            \* the last operation: method, exception raised, driver calls
                    \* made, value returned, state of the handle it was applied to
    probe           \* the _db of the test_cnx of the last set_config that returned

pool_vars == <<phase, ctor_exc, cnt, pool_size, cnx_config, queue_maxsize,
               cnx_queue, ncnx, db>>

caller_vars == <<held, refs, usage, call>>

lock_vars == <<lock_owner, lock_count>>

thread_vars == <<pc, ret, holds>>

conn_vars == <<now, max_idle_time, last_use_time, db_args, cstate,
               autocommit_on, txn, body_exc, log>>

vars == <<pool_vars, caller_vars, lock_vars, thread_vars, conn_vars, probe>>

\* ------------------------------------------------------- Connection objects
\* pymysql.connect(**args): succeeds when the server accepts the arguments
\* and can be reached, raises otherwise.
DriverConnects(config, reachable) == config = "good" /\ reachable

\* A constructor that lets reconnect()'s exception out.
ConnectionInitPropagates(config, reachable) ==
    IF config = "malformed"
    THEN [exc |-> "AttributeError", db |-> 0]
    ELSE IF config = "badport"
    THEN [exc |-> "ValueError", db |-> 0]
    ELSE IF DriverConnects(config, reachable)
    THEN [exc |-> "none", db |-> 1]
    ELSE [exc |-> "OperationalError", db |-> 0]

\* Connection.__init__: parses the host (AttributeError when it has no
\* split(), ValueError when its port is no number), then calls reconnect()
\* and only logs what reconnect() raises. Yields the exception raised and the
\* new object's _db.
ConnectionInit(config, reachable) ==
    IF config = "malformed"
    THEN [exc |-> "AttributeError", db |-> 0]
    ELSE IF config = "badport"
    THEN [exc |-> "ValueError", db |-> 0]
    ELSE [exc |-> "none",
          db  |-> IF DriverConnects(config, reachable) THEN 1 ELSE 0]

\* Connection.close(), called with _db = d; closed is whether the driver's
\* close() returns (it raises pymysql.Error otherwise, leaving _db as it was).
ConnectionClose(d, closed) ==
    IF d # 0
    THEN IF closed THEN [exc |-> "none", db |-> 0]
                   ELSE [exc |-> "pymysql.Error", db |-> d]
    ELSE [exc |-> "none", db |-> d]

\* --------------------------------------------------------------- the queue
\* A queue made without a maxsize.
QueueUnbounded(size) == 0

\* queue.Queue(self._pool_size): the queue's maxsize.
QueueMaxsize(size) == size

\* A full() that answers one item late.
QueueFullOffByOne(q, maxsize) == maxsize > 0 /\ Len(q) > maxsize

\* queue.Queue.full(): a maxsize <= 0 means no limit.
QueueFull(q, maxsize) == maxsize > 0 /\ Len(q) >= maxsize

\* A put that loses the item.
QueuePutDrops(q, maxsize, c) == [exc |-> "none", q |-> q]

\* queue.Queue.put(cnx, block=False): raises queue.Full on a full queue.
QueuePut(q, maxsize, c) ==
    IF QueueFull(q, maxsize)
    THEN [exc |-> "queue.Full", q |-> q]
    ELSE [exc |-> "none", q |-> Append(q, c)]

\* queue.Queue.get(block=False): raises queue.Empty on an empty queue.
QueueGet(q) ==
    IF q = <<>>
    THEN [exc |-> "queue.Empty", q |-> q, cnx |-> NoneArg]
    ELSE [exc |-> "none", q |-> Tail(q), cnx |-> Head(q)]

IsConnection(x) == x \in CnxIds

\* ---------------------------------------------------------------- the pool
\* A size test that lets 0 through.
SetPoolSizeAcceptsZero(size) ==
    IF size < 0 \/ size > CNX_POOL_MAXSIZE THEN "AttributeError" ELSE "none"

\* Pool._set_pool_size: the exception it raises.
SetPoolSize(size) ==
    IF size <= 0 \/ size > CNX_POOL_MAXSIZE THEN "AttributeError" ELSE "none"

\* Pool._queue_connection(cnx): a queue.Full is caught and a PoolError is
\* built but not raised, so the call returns normally.
QueueConnection(q, maxsize, x) ==
    IF ~IsConnection(x)
    THEN [exc |-> "PoolError", q |-> q]
    ELSE [exc |-> "none", q |-> QueuePut(q, maxsize, x).q]

\* A set_config that forgets the stored configuration when the probe fails.
SetConfigBodyClears(config, kwargs, reachable) ==
    IF ConnectionInit(kwargs, reachable).exc # "none"
    THEN [exc |-> "PoolError", config |-> "empty"]
    ELSE [exc |-> "none", config |-> kwargs]

\* The body of Pool.set_config inside the lock: the exception raised and the
\* configuration stored.
SetConfigBody(config, kwargs, reachable) ==
    LET c == ConnectionInit(kwargs, reachable)
    IN  IF c.exc = "AttributeError"
        THEN [exc |-> "PoolError", config |-> config]
        ELSE IF c.exc # "none"
        THEN [exc |-> c.exc, config |-> config]
        ELSE [exc |-> "none", config |-> kwargs]

\* The _db of set_config's test_cnx once set_config has returned. Nothing in
\* set_config closes test_cnx: its handle is closed only by __del__, when the
\* interpreter finalizes the object. finalized is whether that has happened by
\* the return (reference counting does it at once, a tracing collector at a
\* time of its choosing), closed whether the driver's close() returned.
ProbeLeft(kwargs, reachable, finalized, closed) ==
    LET c == ConnectionInit(kwargs, reachable)
    IN  IF c.exc # "none" THEN 0
        ELSE IF finalized THEN ConnectionClose(c.db, closed).db
        ELSE c.db

\* What set_config(kwargs) can leave of its test_cnx.
ProbesLeft(kwargs, reachable) ==
    {ProbeLeft(kwargs, reachable, finalized, closed) :
        finalized \in BOOLEAN, closed \in BOOLEAN}

\* Whether add_connection(x) goes on to construct a Connection.
Constructs(x) ==
    /\ cnx_config # "empty"
    /\ ~QueueFull(cnx_queue, queue_maxsize)
    /\ x = NoneArg

\* An add_connection without the test of the configuration.
AddConnectionBodyNoConfigTest(x, reachable) ==
    IF QueueFull(cnx_queue, queue_maxsize)
    THEN [exc |-> "PoolError", q |-> cnx_queue, ncnx |-> ncnx, db |-> db]
    ELSE IF x = NoneArg
    THEN [exc |-> "none", q |-> Append(cnx_queue, ncnx + 1), ncnx |-> ncnx + 1,
          db |-> db]
    ELSE IF ~IsConnection(x)
    THEN [exc |-> "PoolError", q |-> cnx_queue, ncnx |-> ncnx, db |-> db]
    ELSE [exc |-> "none", q |-> Append(cnx_queue, x), ncnx |-> ncnx, db |-> db]

\* The body of Pool.add_connection inside the lock, called with x. Yields the
\* exception raised, the queue, the number of Connection objects and their _db.
AddConnectionBody(x, reachable) ==
    IF cnx_config = "empty"
    THEN [exc |-> "PoolError", q |-> cnx_queue, ncnx |-> ncnx, db |-> db]
    ELSE IF QueueFull(cnx_queue, queue_maxsize)
    THEN [exc |-> "PoolError", q |-> cnx_queue, ncnx |-> ncnx, db |-> db]
    ELSE IF x = NoneArg
    THEN LET new == ncnx + 1
             c   == ConnectionInit(cnx_config, reachable)
             r   == QueueConnection(cnx_queue, queue_maxsize, new)
         IN  [exc |-> r.exc, q |-> r.q, ncnx |-> new,
              db |-> [db EXCEPT ![new] = c.db]]
    ELSE IF ~IsConnection(x)
    THEN [exc |-> "PoolError", q |-> cnx_queue, ncnx |-> ncnx, db |-> db]
    ELSE LET r == QueueConnection(cnx_queue, queue_maxsize, x)
         IN  [exc |-> r.exc, q |-> r.q, ncnx |-> ncnx, db |-> db]

\* A get_connection that returns None when the queue is empty.
GetConnectionBodyNone ==
    IF cnx_queue = <<>>
    THEN [exc |-> "none", q |-> cnx_queue, cnx |-> NoneArg]
    ELSE [exc |-> "none", q |-> Tail(cnx_queue), cnx |-> Head(cnx_queue)]

\* A get_connection that leaves the connection it returns in the queue.
GetConnectionBodyKeeps ==
    IF cnx_queue = <<>>
    THEN [exc |-> "PoolError", q |-> cnx_queue, cnx |-> NoneArg]
    ELSE [exc |-> "none", q |-> cnx_queue, cnx |-> Head(cnx_queue)]

\* The body of Pool.get_connection inside the lock.
GetConnectionBody ==
    LET r == QueueGet(cnx_queue)
    IN  IF r.exc = "queue.Empty"
        THEN [exc |-> "PoolError", q |-> r.q, cnx |-> NoneArg]
        ELSE [exc |-> "none", q |-> r.q, cnx |-> r.cnx]

\* A loop that a pymysql.Error from cnx.close() ends.
RECURSIVE RemoveConnectionsLoopStops(_, _, _, _)
RemoveConnectionsLoopStops(q, d, closing, n) ==
    IF Len(q) # 0
    THEN LET g == QueueGet(q)
             c == ConnectionClose(d[g.cnx], g.cnx \in closing)
         IN  IF c.exc # "none"
             THEN [q |-> g.q, db |-> d, cnt |-> n]
             ELSE RemoveConnectionsLoopStops(g.q, [d EXCEPT ![g.cnx] = c.db],
                                             closing, n + 1)
    ELSE [q |-> q, db |-> d, cnt |-> n]

\* Pool._remove_connections' loop run on queue q with the objects' _db in d;
\* closing holds the connections whose driver close() returns, the others
\* raise pymysql.Error, which is passed over. Yields the queue, the _db and
\* the count returned.
RECURSIVE RemoveConnectionsLoop(_, _, _, _)
RemoveConnectionsLoop(q, d, closing, n) ==
    IF Len(q) # 0
    THEN LET g == QueueGet(q)
             c == ConnectionClose(d[g.cnx], g.cnx \in closing)
         IN  RemoveConnectionsLoop(g.q, [d EXCEPT ![g.cnx] = c.db], closing,
                                   IF c.exc = "none" THEN n + 1 ELSE n)
    ELSE [q |-> q, db |-> d, cnt |-> n]

Outcome(exc) == IF exc = "none" THEN "returned" ELSE exc

Range(q) == {q[i] : i \in 1..Len(q)}

NoLog == [op |-> "none", exc |-> "none", calls |-> <<>>, value |-> NoneArg,
          touched |-> "none"]

\* ----------------------------------------------------------------- states
\* Before Pool(...) is called.
PoolStart ==
    /\ phase = "new"
    /\ ctor_exc = "none"
    /\ cnt = 0
    /\ pool_size = 0
    /\ cnx_config = "empty"
    /\ queue_maxsize = 0
    /\ cnx_queue = <<>>
    /\ held = {}
    /\ usage = "gets_only"
    /\ call = [op |-> "none", ret |-> "none"]
    /\ lock_owner = 0
    /\ lock_count = 0
    /\ pc = [t \in Threads |-> "idle"]
    /\ ret = [t \in Threads |-> "none"]
    /\ holds = [t \in Threads |-> {}]
    /\ probe = 0

\* The caller has references to the connections in own.
InitWith(own) ==
    /\ PoolStart
    /\ refs = own
    /\ ncnx = 0
    /\ db = [c \in CnxIds |-> IF c = OwnCnx THEN 1 ELSE 0]
    /\ now = 0
    /\ max_idle_time = MaxIdle
    /\ last_use_time = 0
    /\ db_args = "good"
    /\ cstate = "new"
    /\ autocommit_on = FALSE
    /\ txn = "none"
    /\ body_exc = "none"
    /\ log = NoLog

Init == InitWith({})

\* -------------------------------------------------------- Pool.__init__
\* Pool(size, **kwargs) up to its fill loop: _set_pool_size, the empty
\* configuration and queue, and set_config(**kwargs) when kwargs are given.
PoolInit(size, kwargs, reachable) ==
    /\ phase = "new"
    /\ UNCHANGED <<cnt, cnx_queue, ncnx, db, caller_vars, lock_vars, thread_vars,
                   conn_vars>>
    /\ IF SetPoolSize(size) # "none"
       THEN /\ phase' = "failed"
            /\ ctor_exc' = SetPoolSize(size)
            /\ UNCHANGED <<probe, pool_size, cnx_config, queue_maxsize>>
       ELSE /\ pool_size' = size
            /\ queue_maxsize' = QueueMaxsize(size)
            /\ IF kwargs = "empty"
               THEN /\ phase' = "ready"
                    /\ UNCHANGED <<probe, ctor_exc, cnx_config>>
               ELSE LET r == SetConfigBody("empty", kwargs, reachable)
                    IN  /\ cnx_config' = r.config
                        /\ ctor_exc' = r.exc
                        /\ phase' = IF r.exc # "none" THEN "failed"
                                    ELSE "filling"
                        /\ probe' \in ProbesLeft(kwargs, reachable)

\* One turn of `while cnt < self._pool_size: self.add_connection(); cnt += 1`.
PoolFill(reachable) ==
    /\ phase = "filling"
    /\ cnt < pool_size
    /\ LET r == AddConnectionBody(NoneArg, reachable)
       IN  /\ cnx_queue' = r.q
           /\ ncnx' = r.ncnx
           /\ db' = r.db
           /\ ctor_exc' = r.exc
           /\ cnt' = IF r.exc = "none" THEN cnt + 1 ELSE cnt
           /\ phase' = IF r.exc # "none" THEN "failed"
                       ELSE IF cnt + 1 < pool_size THEN "filling" ELSE "ready"
    /\ UNCHANGED <<probe, pool_size, cnx_config, queue_maxsize, caller_vars, lock_vars,
                   thread_vars, conn_vars>>

\* ------------------------------------------------- calls, one after the other
\* The outcomes of reaching the server that a call can meet: both when it
\* opens a connection, one when it does not.
Reachability(opens) == IF opens THEN BOOLEAN ELSE {TRUE}

\* The queued connections whose close() calls the driver.
OpenQueued == {c \in Range(cnx_queue) : db[c] # 0}

\* What a caller can pass to add_connection: nothing, a connection it holds,
\* one it gave back earlier, one it constructed itself, or some other object.
AddArgs == {NoneArg, OtherObject} \cup refs

\* The call history after method o is called with x: "gets_only" while only
\* get_connection was called, "mixed" afterwards.
UsageAfter(o) == IF o = "get_connection" THEN usage ELSE "mixed"

\* pool.set_config(**kwargs); with no kwargs it returns at once.
SetConfig(kwargs, reachable) ==
    /\ phase = "ready"
    /\ LET r == IF kwargs = "empty"
                THEN [exc |-> "none", config |-> cnx_config]
                ELSE SetConfigBody(cnx_config, kwargs, reachable)
       IN  /\ cnx_config' = r.config
           /\ call' = [op |-> "set_config", ret |-> Outcome(r.exc)]
    /\ IF kwargs = "empty"
       THEN probe' = probe
       ELSE probe' \in ProbesLeft(kwargs, reachable)
    /\ usage' = UsageAfter("set_config")
    /\ UNCHANGED <<phase, ctor_exc, cnt, pool_size, queue_maxsize, cnx_queue,
                   ncnx, db, held, refs, lock_vars, thread_vars, conn_vars>>

\* pool.add_connection(x). A connection the pool took is no longer held.
AddConnection(x, reachable) ==
    /\ phase = "ready"
    /\ Constructs(x) => ncnx < MaxCnx
    /\ LET r == AddConnectionBody(x, reachable)
           given == IF r.exc = "none" THEN {x} \cap held ELSE {}
       IN  /\ cnx_queue' = r.q
           /\ ncnx' = r.ncnx
           /\ db' = r.db
           /\ call' = [op |-> "add_connection", ret |-> Outcome(r.exc)]
           /\ held' = held \ given
    /\ usage' = UsageAfter("add_connection")
    /\ UNCHANGED <<probe, phase, ctor_exc, cnt, pool_size, cnx_config, queue_maxsize,
                   refs, lock_vars, thread_vars, conn_vars>>

\* pool.get_connection().
GetConnection ==
    /\ phase = "ready"
    /\ LET r == GetConnectionBody
           got == IF r.exc = "none" THEN {r.cnx} ELSE {}
       IN  /\ cnx_queue' = r.q
           /\ call' = [op |-> "get_connection", ret |-> Outcome(r.exc)]
           /\ held' = held \cup got
           /\ refs' = refs \cup got
    /\ usage' = UsageAfter("get_connection")
    /\ UNCHANGED <<probe, phase, ctor_exc, cnt, pool_size, cnx_config, queue_maxsize,
                   ncnx, db, lock_vars, thread_vars, conn_vars>>

\* pool.dispose().
Dispose(closing) ==
    /\ phase = "ready"
    /\ closing \subseteq OpenQueued
    /\ LET r == RemoveConnectionsLoop(cnx_queue, db, closing, 0)
       IN  /\ cnx_queue' = r.q
           /\ db' = r.db
    /\ call' = [op |-> "dispose", ret |-> "returned"]
    /\ usage' = UsageAfter("dispose")
    /\ UNCHANGED <<probe, phase, ctor_exc, cnt, pool_size, cnx_config, queue_maxsize,
                   ncnx, held, refs, lock_vars, thread_vars, conn_vars>>

\* The interpreter finalizes a test_cnx that outlived its set_config:
\* Connection.__del__ calls close(), and what close() raises is dropped.
Collect(closed) ==
    /\ probe # 0
    /\ probe' = ConnectionClose(probe, closed).db
    /\ UNCHANGED <<pool_vars, caller_vars, lock_vars, thread_vars, conn_vars>>

Next ==
    \/ \E size \in Sizes, kwargs \in Kwargs :
           \E reachable \in Reachability(kwargs \in Configs) :
               PoolInit(size, kwargs, reachable)
    \/ \E reachable \in BOOLEAN : PoolFill(reachable)
    \/ \E kwargs \in Kwargs : \E reachable \in Reachability(kwargs \in Configs) :
           SetConfig(kwargs, reachable)
    \/ \E x \in AddArgs : \E reachable \in Reachability(Constructs(x)) :
           AddConnection(x, reachable)
    \/ GetConnection
    \/ \E closing \in SUBSET OpenQueued : Dispose(closing)
    \/ \E closed \in BOOLEAN : Collect(closed)

Spec == Init /\ [][Next]_vars

\* The same calls made by a caller that has constructed a Connection of its
\* own, on a pool smaller than the largest.
OwnSizes == Sizes \ {MaxSize}

OwnInit == InitWith({OwnCnx})

OwnNext ==
    \/ \E size \in OwnSizes, kwargs \in Kwargs :
           \E reachable \in Reachability(kwargs \in Configs) :
               PoolInit(size, kwargs, reachable)
    \/ \E reachable \in BOOLEAN : PoolFill(reachable)
    \/ \E kwargs \in Kwargs : \E reachable \in Reachability(kwargs \in Configs) :
           SetConfig(kwargs, reachable)
    \/ \E x \in AddArgs : \E reachable \in Reachability(Constructs(x)) :
           AddConnection(x, reachable)
    \/ GetConnection
    \/ \E closing \in SUBSET OpenQueued : Dispose(closing)
    \/ \E closed \in BOOLEAN : Collect(closed)

OwnSpec == OwnInit /\ [][OwnNext]_vars

\* ------------------------------------------------ CONNECTION_POOL_LOCK (RLock)
\* An acquire() that never waits.
LockAlwaysAvailable(t) == TRUE

\* RLock.acquire() returns for thread t when the lock is free or t owns it.
LockAvailable(t) == lock_owner = 0 \/ lock_owner = t

\* A block that gives the lock up only when it is left normally: after an
\* exception the thread stays the lock's owner.
WithExitKeepsOnRaise(owner, count, outcome) ==
    [owner |-> IF count = 1 /\ outcome = "returned" THEN 0 ELSE owner,
     count |-> count - 1]

\* Leaving a `with CONNECTION_POOL_LOCK:` block, normally or by an exception
\* (outcome): RLock.release(). Yields the lock's owner and recursion level.
WithExit(owner, count, outcome) ==
    [owner |-> IF count = 1 THEN 0 ELSE owner, count |-> count - 1]

\* ------------------------------------------------------- client threads
\* A thread's call is followed from the `with CONNECTION_POOL_LOCK:` that
\* set_config (given kwargs), add_connection, get_connection and
\* _remove_connections all start with: the thread waits for the lock
\* ("acquire"), holds it ("cs"), runs the method's body and leaves the block
\* ("exit"). Which method it is, and its arguments, are read by nothing before
\* the body runs, so they are the inputs of the body's step. set_config()
\* without kwargs returns before the lock and has no effect: it is no step.
Call(t) ==
    /\ phase = "ready"
    /\ pc[t] = "idle"
    /\ pc' = [pc EXCEPT ![t] = "acquire"]
    /\ UNCHANGED <<probe, pool_vars, caller_vars, lock_vars, ret, holds, conn_vars>>

\* `with CONNECTION_POOL_LOCK:` entered by thread t.
Acquire(t) ==
    /\ pc[t] = "acquire"
    /\ LockAvailable(t)
    /\ lock_owner' = t
    /\ lock_count' = lock_count + 1
    /\ pc' = [pc EXCEPT ![t] = "cs"]
    /\ UNCHANGED <<probe, pool_vars, caller_vars, ret, holds, conn_vars>>

\* What thread t passes to add_connection: nothing, a connection it holds, or
\* some other object.
ThreadAddArgs(t) == {NoneArg, OtherObject} \cup holds[t]

\* Pool.set_config(**kwargs) inside the lock.
LockedSetConfig(t, kwargs, reachable) ==
    /\ pc[t] = "cs"
    /\ LET r == SetConfigBody(cnx_config, kwargs, reachable)
       IN  /\ cnx_config' = r.config
           /\ ret' = [ret EXCEPT ![t] = Outcome(r.exc)]
    /\ probe' \in ProbesLeft(kwargs, reachable)
    /\ pc' = [pc EXCEPT ![t] = "exit"]
    /\ UNCHANGED <<phase, ctor_exc, cnt, pool_size, queue_maxsize, cnx_queue,
                   ncnx, db, caller_vars, lock_vars, holds, conn_vars>>

\* Pool.add_connection(x) inside the lock. A connection the pool took is no
\* longer the caller's.
LockedAddConnection(t, x, reachable) ==
    /\ pc[t] = "cs"
    /\ Constructs(x) => ncnx < MaxCnx
    /\ LET r == AddConnectionBody(x, reachable)
           given == IF r.exc = "none" THEN {x} \cap holds[t] ELSE {}
       IN  /\ cnx_queue' = r.q
           /\ ncnx' = r.ncnx
           /\ db' = r.db
           /\ ret' = [ret EXCEPT ![t] = Outcome(r.exc)]
           /\ holds' = [holds EXCEPT ![t] = @ \ given]
    /\ pc' = [pc EXCEPT ![t] = "exit"]
    /\ UNCHANGED <<probe, phase, ctor_exc, cnt, pool_size, cnx_config, queue_maxsize,
                   caller_vars, lock_vars, conn_vars>>

\* Pool.get_connection() inside the lock.
LockedGetConnection(t) ==
    /\ pc[t] = "cs"
    /\ LET r == GetConnectionBody
           got == IF r.exc = "none" THEN {r.cnx} ELSE {}
       IN  /\ cnx_queue' = r.q
           /\ ret' = [ret EXCEPT ![t] = Outcome(r.exc)]
           /\ holds' = [holds EXCEPT ![t] = @ \cup got]
    /\ pc' = [pc EXCEPT ![t] = "exit"]
    /\ UNCHANGED <<probe, phase, ctor_exc, cnt, pool_size, cnx_config, queue_maxsize,
                   ncnx, db, caller_vars, lock_vars, conn_vars>>

\* Pool.dispose() inside the lock of _remove_connections: `cnt = 0;
\* cnxq = self._cnx_queue`.
LockedDispose(t) ==
    /\ pc[t] = "cs"
    /\ pc' = [pc EXCEPT ![t] = "removing"]
    /\ UNCHANGED <<probe, pool_vars, caller_vars, lock_vars, ret, holds, conn_vars>>

\* One turn of `while cnxq.qsize()` in _remove_connections (a pymysql.Error
\* from cnx.close() is passed over), or the return after the loop.
LockedRemoveConnections(t, closed) ==
    /\ pc[t] = "removing"
    /\ IF Len(cnx_queue) # 0
       THEN LET g == QueueGet(cnx_queue)
            IN  /\ cnx_queue' = g.q
                /\ db' = [db EXCEPT ![g.cnx] = ConnectionClose(@, closed).db]
                /\ UNCHANGED <<probe, pc, ret>>
       ELSE /\ ret' = [ret EXCEPT ![t] = "returned"]
            /\ pc' = [pc EXCEPT ![t] = "exit"]
            /\ UNCHANGED <<probe, cnx_queue, db>>
    /\ UNCHANGED <<probe, phase, ctor_exc, cnt, pool_size, cnx_config, queue_maxsize,
                   ncnx, caller_vars, lock_vars, holds, conn_vars>>

\* Thread t leaves the `with CONNECTION_POOL_LOCK:` block and its call ends,
\* returning or raising.
Exit(t) ==
    /\ pc[t] = "exit"
    /\ LET l == WithExit(lock_owner, lock_count, ret[t])
       IN  /\ lock_owner' = l.owner
           /\ lock_count' = l.count
    /\ pc' = [pc EXCEPT ![t] = "idle"]
    /\ ret' = [ret EXCEPT ![t] = "none"]
    /\ UNCHANGED <<probe, pool_vars, caller_vars, holds, conn_vars>>

\* A step of thread t inside the lock.
Locked(t) ==
    \/ \E kwargs \in Kwargs \ {"empty"}, reachable \in BOOLEAN :
           LockedSetConfig(t, kwargs, reachable)
    \/ \E x \in ThreadAddArgs(t), reachable \in BOOLEAN :
           LockedAddConnection(t, x, reachable)
    \/ LockedGetConnection(t)
    \/ LockedDispose(t)
    \/ \E closed \in BOOLEAN : LockedRemoveConnections(t, closed)
    \/ Exit(t)

ThreadNext ==
    \/ \E size \in ThreadSizes, kwargs \in Kwargs, reachable \in BOOLEAN :
           PoolInit(size, kwargs, reachable)
    \/ \E reachable \in BOOLEAN : PoolFill(reachable)
    \/ \E t \in Threads : Call(t)
    \/ \E t \in Threads : Acquire(t)
    \/ \E t \in Threads : Locked(t)
    \/ \E closed \in BOOLEAN : Collect(closed)

ThreadSpec == Init /\ [][ThreadNext]_vars

\* A fair scheduler: a thread inside the lock keeps running, and a thread
\* waiting for the lock gets it if it is free again and again.
FairThreadSpec ==
    /\ ThreadSpec
    /\ \A t \in Threads : SF_vars(Acquire(t)) /\ WF_vars(Locked(t))

\* ------------------------------------------------- one Connection object
\* ConnSpec follows Connection object 1, from Connection(**kwargs) on, used
\* by one caller. What the driver does in an operation is its input env:
\* reachable (pymysql.connect returns), closed (the handle's close() returns),
\* outcome of cursor.execute ("ok", "OperationalError", or "Error" for any
\* other driver error) and rows, the size of the result set.
Conn == 1

Outcomes == {"ok", "OperationalError", "Error"}

MaxRows == 2

Envs == [reachable : BOOLEAN, closed : BOOLEAN, outcome : Outcomes,
         rows : 0..MaxRows]

\* The operations that run a statement through _execute: query, get, iter,
\* execute_lastrowid (also execute and insert) and execute_rowcount (also
\* update and delete).
Operations == {"query", "get", "iter", "execute_lastrowid", "execute_rowcount"}

\* With executemany_rowcount (also updatemany and insertmany): all the
\* operations that run a statement.
ExecuteOperations == Operations \cup {"executemany_rowcount"}

\* Those whose result is made of the rows of the statement.
ReadOperations == {"query", "get", "iter"}

\* The operations that pass straight to the handle.
DirectOperations == {"autocommit", "begin", "commit", "rollback"}

\* `time.time() - self._last_use_time > self.max_idle_time`
IdleTooLong == now - last_use_time > max_idle_time

\* What a method finds when it reaches for _db = d, last used at time last:
\* no handle, one that has been idle for too long, or a live one.
HandleState(d, last) ==
    IF d = 0 THEN "null"
    ELSE IF now - last > max_idle_time THEN "expired"
    ELSE "live"

\* A reconnect that connects first and closes the old handle only once the
\* new one is there.
ReconnectConnectsFirst(d, env) ==
    IF ~DriverConnects(db_args, env.reachable)
    THEN [exc |-> "OperationalError", db |-> d, calls |-> <<"connect">>]
    ELSE [exc |-> "none", db |-> 1,
          calls |-> <<"connect">>
                    \o (IF d # 0 THEN <<"close">> ELSE <<>>)
                    \o <<"autocommit">>]

\* Connection.reconnect() on _db = d: close(), then pymysql.connect and
\* autocommit(True). Yields the exception, _db and the driver calls made.
Reconnect(d, env) ==
    LET c == ConnectionClose(d, env.closed)
        closing == IF d # 0 THEN <<"close">> ELSE <<>>
    IN  IF c.exc # "none"
        THEN [exc |-> c.exc, db |-> c.db, calls |-> closing]
        ELSE IF ~DriverConnects(db_args, env.reachable)
        THEN [exc |-> "OperationalError", db |-> c.db,
              calls |-> closing \o <<"connect">>]
        ELSE [exc |-> "none", db |-> 1,
              calls |-> closing \o <<"connect", "autocommit">>]

\* An _ensure_connected that reconnects only when there is no handle.
EnsureConnectedNoIdleTest(d, env) ==
    IF d = 0
    THEN LET r == Reconnect(d, env)
         IN  [exc |-> r.exc, db |-> r.db, calls |-> r.calls,
              last_use_time |-> IF r.exc = "none" THEN now ELSE last_use_time]
    ELSE [exc |-> "none", db |-> d, calls |-> <<>>, last_use_time |-> now]

\* Connection._ensure_connected() on _db = d. Yields the exception, _db,
\* _last_use_time and the driver calls made.
EnsureConnected(d, env) ==
    IF d = 0 \/ IdleTooLong
    THEN LET r == Reconnect(d, env)
         IN  [exc |-> r.exc, db |-> r.db, calls |-> r.calls,
              last_use_time |-> IF r.exc = "none" THEN now ELSE last_use_time]
    ELSE [exc |-> "none", db |-> d, calls |-> <<>>, last_use_time |-> now]

\* An _execute that closes the handle on any driver error.
ExecuteClosesOnAnyError(d, env) ==
    IF env.outcome # "ok"
    THEN LET c == ConnectionClose(d, env.closed)
         IN  [exc |-> IF c.exc # "none" THEN c.exc ELSE env.outcome,
              db |-> c.db, calls |-> <<"execute", "close">>]
    ELSE [exc |-> "none", db |-> d, calls |-> <<"execute">>]

\* Connection._execute on _db = d: cursor.execute, and on OperationalError
\* close() and raise again.
Execute(d, env) ==
    IF env.outcome = "OperationalError"
    THEN LET c == ConnectionClose(d, env.closed)
         IN  [exc |-> IF c.exc # "none" THEN c.exc ELSE "OperationalError",
              db |-> c.db, calls |-> <<"execute", "close">>]
    ELSE [exc |-> IF env.outcome = "ok" THEN "none" ELSE env.outcome,
          db |-> d, calls |-> <<"execute">>]

\* executemany_rowcount on _db = d: cursor.executemany, called without
\* _execute, so whatever it raises passes through.
ExecuteMany(d, env) ==
    [exc |-> IF env.outcome = "ok" THEN "none" ELSE env.outcome,
     db |-> d, calls |-> <<"executemany">>]

\* The result set of a statement that matched n rows: rows 1 to n.
Rows(n) == [i \in 1..n |-> i]

\* A get that hands back the first of several rows.
ResultFirstOfMany(o, env) ==
    IF o = "get"
    THEN [exc |-> "none",
          value |-> IF env.rows = 0 THEN NoneArg ELSE Rows(env.rows)[1]]
    ELSE [exc |-> "none",
          value |-> IF o \in ReadOperations THEN env.rows ELSE NoneArg]

\* What the method does with the rows once the statement has run. get
\* returns None for no row, the row when there is one, and raises on more
\* than one; the value of query and iter is given as the number of rows,
\* that of the others is left out.
Result(o, env) ==
    LET rows == Rows(env.rows)
    IN  IF o = "get"
        THEN IF Len(rows) = 0 THEN [exc |-> "none", value |-> NoneArg]
             ELSE IF Len(rows) > 1 THEN [exc |-> "Exception", value |-> NoneArg]
             ELSE [exc |-> "none", value |-> rows[1]]
        ELSE [exc |-> "none",
              value |-> IF o \in ReadOperations THEN env.rows ELSE NoneArg]

\* An operation on _db = d: _ensure_connected(), a cursor, the statement, the
\* result. Yields the exception, _db, _last_use_time, the driver calls, the
\* value returned and the state of the handle the cursor was made on.
Operate(o, d, env) ==
    LET e == EnsureConnected(d, env)
        x == IF o = "executemany_rowcount" THEN ExecuteMany(e.db, env)
             ELSE Execute(e.db, env)
        r == Result(o, env)
    IN  IF e.exc # "none"
        THEN [exc |-> e.exc, db |-> e.db, last_use_time |-> e.last_use_time,
              calls |-> e.calls, value |-> NoneArg, touched |-> "none"]
        ELSE [exc |-> IF x.exc # "none" THEN x.exc ELSE r.exc,
              db |-> x.db, last_use_time |-> e.last_use_time,
              calls |-> e.calls \o <<"cursor">> \o x.calls,
              value |-> IF x.exc # "none" THEN NoneArg ELSE r.value,
              touched |-> HandleState(e.db, e.last_use_time)]

\* What of the driver's doings operation o can meet in the present state:
\* connect is called only by a reconnect, close only by a reconnect with a
\* handle or after an OperationalError in _execute, and the rows are read
\* only after the statement has run. The parts of env that o does not meet are
\* left at one value.
EnvsFor(o) ==
    {env \in Envs :
        /\ ~(db[Conn] = 0 \/ IdleTooLong) => env.reachable
        /\ ~(\/ db[Conn] # 0 /\ IdleTooLong
             \/ env.outcome = "OperationalError" /\ o # "executemany_rowcount")
               => env.closed
        /\ ~(env.outcome = "ok" /\ o \in ReadOperations) => env.rows = 0}

\* A call that passes straight to the handle _db = d: None has no such
\* method, a handle runs it.
Handle(d, name) ==
    IF d = 0 THEN [exc |-> "AttributeError", calls |-> <<>>]
    ELSE [exc |-> "none", calls |-> <<name>>]

\* Leaving the `with transaction():` block on _db = d, failure being the
\* exception on its way out of the body ("none" when the body completed):
\* commit() after the body; rollback() in the bare `except:`, which does not
\* raise again; autocommit(True) in the `finally:`. Yields the exception that
\* leaves transaction() and the driver calls made.
TransactionExit(d, failure) ==
    LET c  == Handle(d, "commit")
        rb == Handle(d, "rollback")
        ac == Handle(d, "autocommit")
        tried  == IF failure = "none" THEN c.exc ELSE failure
        caught == IF tried = "none" THEN "none" ELSE rb.exc
    IN  [exc |-> IF ac.exc # "none" THEN ac.exc ELSE caught,
         calls |-> (IF failure = "none" THEN c.calls ELSE <<>>)
                   \o (IF tried # "none" THEN rb.calls ELSE <<>>)
                   \o ac.calls]

\* Before Connection(...) is called.
ConnInit ==
    /\ PoolStart
    /\ refs = {}
    /\ ncnx = 1
    /\ db = [c \in CnxIds |-> 0]
    /\ now = 0
    /\ max_idle_time = MaxIdle
    /\ last_use_time = 0
    /\ db_args = "empty"
    /\ cstate = "new"
    /\ autocommit_on = FALSE
    /\ txn = "none"
    /\ body_exc = "none"
    /\ log = NoLog

\* time.time() moves on.
Tick ==
    /\ now < MaxTime
    /\ now' = now + 1
    /\ UNCHANGED <<probe, pool_vars, caller_vars, lock_vars, thread_vars,
                   max_idle_time, last_use_time, db_args, cstate,
                   autocommit_on, txn, body_exc, log>>

\* Connection(max_idle_time = idle, **kwargs): an exception of the host's
\* parsing leaves no object; reconnect()'s exception is logged and leaves one
\* without a handle.
Construct(kwargs, idle, reachable) ==
    /\ cstate = "new"
    /\ LET r == ConnectionInit(kwargs, reachable)
       IN  /\ log' = [NoLog EXCEPT !.op = "__init__", !.exc = r.exc]
           /\ IF r.exc # "none"
              THEN /\ cstate' = "failed"
                   /\ UNCHANGED <<probe, db, db_args, max_idle_time, last_use_time,
                                  autocommit_on>>
              ELSE /\ cstate' = "live"
                   /\ db' = [db EXCEPT ![Conn] = r.db]
                   /\ db_args' = kwargs
                   /\ max_idle_time' = idle
                   /\ last_use_time' = now
                   /\ autocommit_on' = (r.db # 0)
    /\ UNCHANGED <<probe, phase, ctor_exc, cnt, pool_size, cnx_config, queue_maxsize,
                   cnx_queue, ncnx, caller_vars, lock_vars, thread_vars,
                   now, txn, body_exc>>

\* The caller runs operation o. Inside a `with transaction():` block an
\* exception of the operation goes on out of the block's body.
Operation(o, env) ==
    /\ cstate = "live"
    /\ txn # "failed"
    /\ LET r == Operate(o, db[Conn], env)
       IN  /\ db' = [db EXCEPT ![Conn] = r.db]
           /\ last_use_time' = r.last_use_time
           /\ autocommit_on' = IF \E i \in 1..Len(r.calls) : r.calls[i] = "autocommit"
                               THEN TRUE ELSE autocommit_on
           /\ log' = [op |-> o, exc |-> r.exc, calls |-> r.calls,
                      value |-> r.value, touched |-> r.touched]
           /\ IF txn = "open" /\ r.exc # "none"
              THEN txn' = "failed" /\ body_exc' = r.exc
              ELSE UNCHANGED <<txn, body_exc>>
    /\ UNCHANGED <<probe, phase, ctor_exc, cnt, pool_size, cnx_config, queue_maxsize,
                   cnx_queue, ncnx, caller_vars, lock_vars, thread_vars,
                   now, max_idle_time, db_args, cstate>>

\* The caller runs autocommit(value), begin(), commit() or rollback(): each
\* is `self._db.<method>(...)`.
Direct(o, value) ==
    /\ cstate = "live"
    /\ txn # "failed"
    /\ LET r == Handle(db[Conn], o)
       IN  /\ log' = [op |-> o, exc |-> r.exc, calls |-> r.calls,
                      value |-> NoneArg,
                      touched |-> HandleState(db[Conn], last_use_time)]
           /\ autocommit_on' = IF o = "autocommit" /\ r.exc = "none"
                               THEN value ELSE autocommit_on
           /\ IF txn = "open" /\ r.exc # "none"
              THEN txn' = "failed" /\ body_exc' = r.exc
              ELSE UNCHANGED <<txn, body_exc>>
    /\ UNCHANGED <<probe, pool_vars, caller_vars, lock_vars, thread_vars, now,
                   max_idle_time, last_use_time, db_args, cstate>>

\* The caller enters `with transaction():`, which runs autocommit(False) and
\* begin() before the body.
TransactionEnter ==
    /\ cstate = "live"
    /\ txn = "none"
    /\ LET a == Handle(db[Conn], "autocommit")
           b == Handle(db[Conn], "begin")
       IN  /\ log' = [op |-> "transaction",
                      exc |-> IF a.exc # "none" THEN a.exc ELSE b.exc,
                      calls |-> a.calls \o b.calls,
                      value |-> NoneArg,
                      touched |-> HandleState(db[Conn], last_use_time)]
           /\ txn' = IF a.exc = "none" /\ b.exc = "none" THEN "open" ELSE "none"
           /\ autocommit_on' = IF a.exc = "none" THEN FALSE ELSE autocommit_on
    /\ UNCHANGED <<probe, pool_vars, caller_vars, lock_vars, thread_vars, now,
                   max_idle_time, last_use_time, db_args, cstate, body_exc>>

\* The body of the block ends: it completes, raises an exception of its own
\* (raised), or the exception of one of its operations arrives.
TransactionLeave(raised) ==
    /\ txn \in {"open", "failed"}
    /\ txn = "failed" => raised
    /\ LET failure == IF txn = "failed" THEN body_exc
                      ELSE IF raised THEN "Exception" ELSE "none"
           r == TransactionExit(db[Conn], failure)
       IN  /\ log' = [op |-> "transaction", exc |-> r.exc, calls |-> r.calls,
                      value |-> NoneArg,
                      touched |-> HandleState(db[Conn], last_use_time)]
           /\ autocommit_on' = IF db[Conn] # 0 THEN TRUE ELSE autocommit_on
    /\ txn' = "none"
    /\ body_exc' = "none"
    /\ UNCHANGED <<probe, pool_vars, caller_vars, lock_vars, thread_vars, now,
                   max_idle_time, last_use_time, db_args, cstate>>

\* The caller runs close(), outside a transaction block.
Close(closed) ==
    /\ cstate = "live"
    /\ txn = "none"
    /\ LET r == ConnectionClose(db[Conn], closed)
       IN  /\ db' = [db EXCEPT ![Conn] = r.db]
           /\ log' = [NoLog EXCEPT !.op = "close", !.exc = r.exc,
                                   !.calls = IF db[Conn] # 0 THEN <<"close">>
                                             ELSE <<>>]
    /\ UNCHANGED <<probe, phase, ctor_exc, cnt, pool_size, cnx_config, queue_maxsize,
                   cnx_queue, ncnx, caller_vars, lock_vars, thread_vars,
                   now, max_idle_time, last_use_time, db_args, cstate,
                   autocommit_on, txn, body_exc>>

ConnNext ==
    \/ Tick
    \/ \E kwargs \in Kwargs \ {"empty"}, idle \in 1..MaxIdle, reachable \in BOOLEAN :
           Construct(kwargs, idle, reachable)
    \/ \E o \in ExecuteOperations : \E env \in EnvsFor(o) : Operation(o, env)
    \/ \E o \in DirectOperations, value \in BOOLEAN : Direct(o, value)
    \/ TransactionEnter
    \/ \E raised \in BOOLEAN : TransactionLeave(raised)
    \/ \E closed \in BOOLEAN : Close(closed)

ConnSpec == ConnInit /\ [][ConnNext]_vars

\* ================================================================= claims
CriticalSection == {"cs", "removing", "exit"}

\* C1: after Pool(size = n, **kwargs) has been constructed and while only
\* get_connection has been called, the queue and the connections handed out
\* add up to n distinct connections: as long as fewer than n were handed out
\* the next get_connection returns one not yet handed out, and once n were
\* handed out the next one raises PoolError, which it has not done before.
FilledPoolGivesSizeConnections ==
    (phase = "ready" /\ cnx_config # "empty" /\ usage = "gets_only") =>
        /\ Len(cnx_queue) + Cardinality(held) = pool_size
        /\ Cardinality(Range(cnx_queue)) = Len(cnx_queue)
        /\ held \cap Range(cnx_queue) = {}
        /\ Cardinality(held) < pool_size =>
               /\ GetConnectionBody.exc = "none"
               /\ GetConnectionBody.cnx \notin held
               /\ call.ret # "PoolError"
        /\ Cardinality(held) = pool_size => GetConnectionBody.exc = "PoolError"

\* C1 witness: a pool of two or more connections has handed all of them out
\* and the next get_connection has reported exhaustion.
PoolExhaustedAfterSizeGets ==
    /\ phase = "ready"
    /\ usage = "gets_only"
    /\ pool_size >= 2
    /\ Cardinality(held) = pool_size
    /\ call = [op |-> "get_connection", ret |-> "PoolError"]

\* C2: get_connection on an empty queue can always run, raises PoolError and
\* leaves the queue and the configuration as they were.
EmptyPoolGetFailsAtOnce ==
    /\ [](phase = "ready" => ENABLED GetConnection)
    /\ [][(GetConnection /\ cnx_queue = <<>>) =>
              /\ call' = [op |-> "get_connection", ret |-> "PoolError"]
              /\ UNCHANGED <<probe, cnx_queue, cnx_config>>]_vars

\* C2 witness: a configured pool whose queue is empty has answered a
\* get_connection with PoolError.
GetRaisedOnEmptyPool ==
    /\ phase = "ready"
    /\ cnx_config # "empty"
    /\ cnx_queue = <<>>
    /\ held # {}
    /\ call = [op |-> "get_connection", ret |-> "PoolError"]

\* C3: add_connection on a configured pool whose queue holds `size`
\* connections raises PoolError whatever it is given, constructs no
\* Connection and leaves the queue as it was.
FullPoolAddFails ==
    [][(cnx_config # "empty" /\ Len(cnx_queue) = pool_size) =>
          \A x \in AddArgs, reachable \in BOOLEAN :
              AddConnection(x, reachable) =>
                  /\ call' = [op |-> "add_connection", ret |-> "PoolError"]
                  /\ UNCHANGED <<probe, cnx_queue, ncnx, db>>]_vars

\* C3 witness: a full, configured pool has answered an add_connection with
\* PoolError.
AddRaisedOnFullPool ==
    /\ phase = "ready"
    /\ cnx_config # "empty"
    /\ Len(cnx_queue) = pool_size
    /\ call = [op |-> "add_connection", ret |-> "PoolError"]

\* C4: set_config with parameters for which no connection can be opened
\* raises PoolError and leaves the stored configuration as it was.
FailedProbeKeepsConfig ==
    [][\A kwargs \in Kwargs \ {"empty"}, reachable \in BOOLEAN :
          (/\ SetConfig(kwargs, reachable)
           /\ ~DriverConnects(kwargs, reachable)) =>
              /\ call' = [op |-> "set_config", ret |-> "PoolError"]
              /\ cnx_config' = cnx_config]_vars

\* C5: the queue never holds more connections than the pool's size.
QueueWithinCapacity == Len(cnx_queue) <= pool_size

\* C5 witness: an add_connection has succeeded and filled the queue of a
\* pool of two or more to capacity.
QueueFilledByAdd ==
    /\ phase = "ready"
    /\ pool_size >= 2
    /\ Len(cnx_queue) = pool_size
    /\ call = [op |-> "add_connection", ret |-> "returned"]

\* C6: no Connection object is in the queue twice.
NoConnectionQueuedTwice == Cardinality(Range(cnx_queue)) = Len(cnx_queue)

\* C7: with threads that give back only connections they hold, no connection
\* is held by two threads, and a connection a thread holds is not in the
\* queue to be handed out again.
OneHolderPerConnection ==
    /\ \A t, u \in Threads : t # u => holds[t] \cap holds[u] = {}
    /\ \A t \in Threads : holds[t] \cap Range(cnx_queue) = {}

\* C7 witness: both threads hold a connection.
BothThreadsHold == \A t \in Threads : holds[t] # {}

\* C8: at most one thread is inside a `with CONNECTION_POOL_LOCK:` block, and
\* it owns the lock.
OneThreadInCriticalSection ==
    /\ Cardinality({t \in Threads : pc[t] \in CriticalSection}) <= 1
    /\ \A t \in Threads : pc[t] \in CriticalSection => lock_owner = t

\* C8 witness: a thread is in the middle of _remove_connections' loop while
\* the other waits for the lock.
ThreadWaitsForDisposingThread ==
    \E t, u \in Threads :
        /\ pc[t] = "removing"
        /\ cnx_queue # <<>>
        /\ pc[u] = "acquire"

\* C9: under a fair scheduler every call of a locked pool method ends.
EveryCallEnds == \A t \in Threads : (pc[t] # "idle") ~> (pc[t] = "idle")

\* C9 witness: a thread has raised PoolError inside the lock, on its way out,
\* while the other waits for the lock.
ThreadWaitsForRaisingThread ==
    \E t, u \in Threads :
        /\ pc[t] = "exit"
        /\ ret[t] = "PoolError"
        /\ pc[u] = "acquire"

\* C10: an operation on a connection that has a handle, has been idle for
\* more than max_idle_time and whose driver calls succeed closes the handle,
\* opens a new one, sets _last_use_time to the time of the operation and
\* raises nothing (get being given at most one row).
IdleConnectionReconnects ==
    [][(db[Conn] # 0 /\ IdleTooLong) =>
          \A o \in Operations, rows \in 0..MaxRows :
              LET env == [reachable |-> TRUE, closed |-> TRUE,
                          outcome |-> "ok", rows |-> rows]
              IN  (/\ DriverConnects(db_args, env.reachable)
                   /\ Result(o, env).exc = "none"
                   /\ Operation(o, env)) =>
                      /\ log'.exc = "none"
                      /\ log'.calls =
                             <<"close", "connect", "autocommit", "cursor", "execute">>
                      /\ db'[Conn] # 0
                      /\ last_use_time' = now]_vars

\* C10 witness: an operation has reconnected an idle connection and run its
\* statement.
ReconnectedAndRan ==
    /\ log.op \in Operations
    /\ log.exc = "none"
    /\ log.calls = <<"close", "connect", "autocommit", "cursor", "execute">>
    /\ last_use_time = now
    /\ now > max_idle_time

\* C17: a pool constructed with a configuration holds, before any call is
\* made on it, `size` queued connections that all have a handle: a failure to
\* open one would have made the construction fail.
ConstructedPoolIsLive ==
    (phase = "ready" /\ cnx_config # "empty" /\ call.op = "none") =>
        /\ Len(cnx_queue) = pool_size
        /\ \A c \in Range(cnx_queue) : db[c] # 0

\* C18: a pool gets past _set_pool_size only with 0 < size <= 32; with any
\* other size Pool(...) raises before it has a queue, a configuration or a
\* connection.
OnlyValidSizesConstruct ==
    /\ [](phase \in {"filling", "ready"} => pool_size \in 1..CNX_POOL_MAXSIZE)
    /\ [][phase = "new" =>
              \A size \in Sizes, kwargs \in Kwargs, reachable \in BOOLEAN :
                  (/\ size <= 0 \/ size > CNX_POOL_MAXSIZE
                   /\ PoolInit(size, kwargs, reachable)) =>
                      /\ phase' = "failed"
                      /\ ctor_exc' = "AttributeError"
                      /\ UNCHANGED <<probe, pool_size, queue_maxsize, cnx_queue,
                                     cnx_config, ncnx, db>>]_vars

\* C18 witness: Pool(...) has raised on its size, with no queue made and no
\* connection opened.
ConstructionRefusedSize ==
    /\ phase = "failed"
    /\ ctor_exc = "AttributeError"
    /\ pool_size = 0
    /\ queue_maxsize = 0
    /\ ncnx = 0

\* C19: on a pool without a configuration add_connection raises PoolError
\* whatever it is given, constructs no Connection and leaves the queue empty;
\* so a queue that is not empty belongs to a pool that has a configuration.
UnconfiguredPoolAddFails ==
    /\ [](cnx_queue # <<>> => cnx_config # "empty")
    /\ [][cnx_config = "empty" =>
              \A x \in AddArgs, reachable \in BOOLEAN :
                  AddConnection(x, reachable) =>
                      /\ call' = [op |-> "add_connection", ret |-> "PoolError"]
                      /\ cnx_queue' = <<>>
                      /\ UNCHANGED <<probe, ncnx, db>>]_vars

\* C19 witness: a pool without a configuration, whose caller has a Connection
\* to give, has answered an add_connection with PoolError.
AddRaisedOnUnconfiguredPool ==
    /\ phase = "ready"
    /\ cnx_config = "empty"
    /\ OwnCnx \in AddArgs
    /\ cnx_queue = <<>>
    /\ call = [op |-> "add_connection", ret |-> "PoolError"]

\* C20: a configuration, once stored, is never emptied by a later call, and
\* add_connection() on a configured pool whose queue has room returns
\* normally, also after dispose.
ConfigurationStays ==
    /\ [][cnx_config # "empty" => cnx_config' # "empty"]_vars
    /\ [](/\ phase = "ready"
          /\ cnx_config # "empty"
          /\ ~QueueFull(cnx_queue, queue_maxsize)
          /\ ncnx < MaxCnx
          => \A reachable \in BOOLEAN :
                 AddConnectionBody(NoneArg, reachable).exc = "none")

\* C20 witness: the filled queue was emptied by dispose, and add_connection()
\* has since put a newly constructed connection into it.
AddWorkedAfterDispose ==
    /\ phase = "ready"
    /\ held = {}
    /\ ncnx > pool_size
    /\ cnx_queue = <<ncnx>>
    /\ call = [op |-> "add_connection", ret |-> "returned"]

\* Hosts given as a string: those of Configs, and "name:port" with a port
\* that is no number.
HostStrings == Configs \cup {"badport"}

\* C11: no operation is applied to a handle that is None or has been idle
\* for longer than max_idle_time.
OperationsTouchCheckedHandle == log.touched \notin {"null", "expired"}

\* C12: when the statement of an execute operation raises OperationalError
\* (the connection having been ensured, and the handle's close() returning),
\* the operation raises OperationalError, leaves no handle, and has run the
\* statement once.
OperationalErrorClosesHandle ==
    [][\A o \in ExecuteOperations, reachable \in BOOLEAN :
          LET env == [reachable |-> reachable, closed |-> TRUE,
                      outcome |-> "OperationalError", rows |-> 0]
          IN  (/\ EnsureConnected(db[Conn], env).exc = "none"
               /\ Operation(o, env)) =>
                  /\ log'.exc = "OperationalError"
                  /\ db'[Conn] = 0
                  /\ Cardinality({i \in 1..Len(log'.calls) :
                         log'.calls[i] \in {"execute", "executemany"}}) = 1]_vars

\* C13: leaving a transaction() block calls commit exactly when the body
\* completed, rollback exactly when an exception came out of the body, and in
\* both cases ends with autocommit(True) on the handle.
TransactionCommitsOrRollsBack ==
    [][\A raised \in BOOLEAN :
          TransactionLeave(raised) =>
              LET failed == txn = "failed" \/ raised
                  called(name) == \E i \in 1..Len(log'.calls) : log'.calls[i] = name
              IN  /\ called("commit") <=> ~failed
                  /\ called("rollback") <=> failed
                  /\ called("autocommit")
                  /\ autocommit_on']_vars

\* C14: when an exception comes out of the body of a transaction() block,
\* an exception leaves the block.
TransactionFailureSurfaces ==
    [][\A raised \in BOOLEAN :
          (/\ txn = "failed" \/ raised
           /\ TransactionLeave(raised)) => log'.exc # "none"]_vars

\* C15: when its statement has run, get returns None for no row, the row for
\* one row, and raises for more than one.
GetReturnsTheSingleRow ==
    [][log'.op = "get" =>
          \A rows \in 0..MaxRows, reachable \in BOOLEAN, closed \in BOOLEAN :
              LET env == [reachable |-> reachable, closed |-> closed,
                          outcome |-> "ok", rows |-> rows]
              IN  (/\ EnsureConnected(db[Conn], env).exc = "none"
                   /\ Operation("get", env)) =>
                      /\ rows = 0 => log'.exc = "none" /\ log'.value = NoneArg
                      /\ rows = 1 => log'.exc = "none" /\ log'.value = Rows(rows)[1]
                      /\ rows > 1 => log'.exc = "Exception"]_vars

\* C15 witness: get has raised on a statement that matched several rows.
GetRaisedOnSeveralRows ==
    /\ log.op = "get"
    /\ log.exc = "Exception"
    /\ log.calls # <<>>

\* C16, as the specification has it: Connection(...) raises for no host
\* string, leaves no handle when the handle cannot be opened, and one when it
\* can.
ConstructionNeverRaises ==
    [][\A kwargs \in HostStrings, idle \in 1..MaxIdle, reachable \in BOOLEAN :
          Construct(kwargs, idle, reachable) =>
              /\ cstate' = "live"
              /\ log'.exc = "none"
              /\ db'[Conn] # 0 <=> DriverConnects(kwargs, reachable)]_vars

\* C16, amended: Connection(...) raises for no host string whose port, if it
\* names one, is a number; it leaves no handle when the handle cannot be
\* opened, and one when it can.
ConstructionWithNumericPortNeverRaises ==
    [][\A kwargs \in Configs, idle \in 1..MaxIdle, reachable \in BOOLEAN :
          Construct(kwargs, idle, reachable) =>
              /\ cstate' = "live"
              /\ log'.exc = "none"
              /\ db'[Conn] # 0 <=> DriverConnects(kwargs, reachable)]_vars

\* C16 witness: a Connection was constructed while its handle could not be
\* opened.
ConstructedWithoutHandle ==
    /\ cstate = "live"
    /\ log.op = "__init__"
    /\ log.exc = "none"
    /\ db[Conn] = 0

\* C21: dispose returns with the queue empty, having closed every queued
\* connection whose close() returns; a connection whose close() raises
\* pymysql.Error keeps its handle and does not stop the others from being
\* closed.
DisposeDrainsQueue ==
    [][call'.op = "dispose" =>
          \A closing \in SUBSET OpenQueued :
              Dispose(closing) =>
                  /\ cnx_queue' = <<>>
                  /\ call'.ret = "returned"
                  /\ \A c \in Range(cnx_queue) :
                         db'[c] = IF c \in closing THEN 0 ELSE db[c]]_vars

\* C21 witness: dispose has emptied the queue and closed a connection, while
\* the close() of another one that was queued raised.
DisposedPastFailedClose ==
    /\ call = [op |-> "dispose", ret |-> "returned"]
    /\ cnx_queue = <<>>
    /\ held = {}
    /\ ncnx >= 2
    /\ \E c, e \in 1..ncnx : db[c] # 0 /\ db[e] = 0

\* C22: close() is idempotent: it leaves _db None, on a connection whose _db
\* is None it calls nothing, raises nothing and changes nothing, and it
\* calls the driver's close() once on a handle that is there.
CloseIsIdempotent ==
    [][cstate = "live" /\ txn = "none" =>
          \A closed \in BOOLEAN :
              Close(closed) =>
                  /\ db'[Conn] = 0
                  /\ log'.calls = IF db[Conn] # 0 THEN <<"close">> ELSE <<>>
                  /\ db[Conn] = 0 => log'.exc = "none" /\ db' = db]_vars

\* C23: set_config leaves the idle queue as it was, and when it returns the
\* handle of the connection it opened to test the configuration is closed.
SetConfigLeavesNoHandle ==
    [][phase = "ready" =>
          \A kwargs \in Kwargs, reachable \in BOOLEAN :
              SetConfig(kwargs, reachable) =>
                  /\ cnx_queue' = cnx_queue
                  /\ probe' = IF kwargs = "empty" THEN probe ELSE 0]_vars

\* C24: the connections the pool has created that exist at one time, those
\* idle in the queue and those checked out with an open handle, are never
\* more than the pool's capacity.
PoolCreatesUpToCapacity ==
    phase = "ready" =>
        Cardinality(Range(cnx_queue) \cup {c \in held : db[c] # 0})
            <= pool_size

\* C25: _queue_connection raises PoolError when the queue is full and refuses
\* the put, so that no call of it returns normally without having queued the
\* connection it was given.
QueueRejectionRaises ==
    \A c \in held :
        LET r == QueueConnection(cnx_queue, queue_maxsize, c)
        IN  /\ QueueFull(cnx_queue, queue_maxsize) => r.exc = "PoolError"
            /\ r.exc = "none" => r.q = Append(cnx_queue, c)

\* C26: when _ensure_connected reconnects and the driver's connect raises,
\* the operation raises that error, _db is None (the old handle was closed
\* first), _last_use_time is as it was and no statement was run; and an
\* operation that finds _db None begins by connecting.
FailedReconnectLeavesNoHandle ==
    [][(/\ cstate = "live" /\ txn # "failed"
        /\ db[Conn] = 0 \/ IdleTooLong
        /\ now' = now
        /\ log'.op \in ExecuteOperations) =>
          \A env \in EnvsFor(log'.op) :
              Operation(log'.op, env) =>
                  /\ (/\ db[Conn] # 0 => env.closed
                      /\ ~DriverConnects(db_args, env.reachable))
                         => /\ log'.exc = "OperationalError"
                            /\ db'[Conn] = 0
                            /\ last_use_time' = last_use_time
                            /\ log'.calls =
                                   (IF db[Conn] # 0 THEN <<"close">> ELSE <<>>)
                                   \o <<"connect">>
                            /\ log'.touched = "none"
                  /\ db[Conn] = 0 => log'.calls[1] = "connect"]_vars

\* C26 witness: an idle handle was closed, the connect after it raised, and
\* the connection is left without a handle and with its old timestamp.
ReconnectFailedOnIdleHandle ==
    /\ log.op \in ExecuteOperations
    /\ log.exc = "OperationalError"
    /\ log.calls = <<"close", "connect">>
    /\ db[Conn] = 0
    /\ now - last_use_time > max_idle_time

\* C27: a driver error other than OperationalError raised by the statement
\* reaches the caller and leaves _db open, the very handle when no reconnect
\* came before the statement; on a connection that was connected for the
\* statement, _db is None afterwards only when the statement raised
\* OperationalError.
OtherErrorsKeepHandle ==
    [][(/\ cstate = "live" /\ txn # "failed"
        /\ now' = now
        /\ log'.op \in ExecuteOperations) =>
          \A env \in EnvsFor(log'.op) :
              (/\ env.outcome = "Error" \/ db'[Conn] = 0
               /\ \/ db[Conn] # 0 /\ ~IdleTooLong
                  \/ /\ db[Conn] # 0 => env.closed
                     /\ DriverConnects(db_args, env.reachable)
               /\ Operation(log'.op, env)) =>
                  /\ env.outcome = "Error" =>
                         /\ log'.exc = "Error"
                         /\ db'[Conn] # 0
                         /\ (db[Conn] # 0 /\ ~IdleTooLong) => db' = db
                         /\ log'.calls[Len(log'.calls)] # "close"
                  /\ db'[Conn] = 0 => env.outcome = "OperationalError"]_vars

\* C27 witness: a statement raised a driver error that is not an
\* OperationalError, and the connection still has its handle.
StatementFailedHandleKept ==
    /\ log.op \in Operations
    /\ log.exc = "Error"
    /\ log.calls = <<"cursor", "execute">>
    /\ db[Conn] # 0

====
